---- MODULE Spec2Model ----
(***************************************************************************)
(* Model of app.py: a bootstrap script that obtains Node.js through a      *)
(* chain of fallback strategies, installs a fixed catalogue of Python      *)
(* packages, launches the first usable entry point and prints a summary.   *)
(*                                                                         *)
(* Two specifications are given.  SpecRun exercises run_command alone for  *)
(* every retry count in 0..MaxRetries.  Spec is the whole script as run    *)
(* from __main__, where every run_command call uses the default retries.   *)
(***************************************************************************)
EXTENDS Integers, Sequences, FiniteSets, TLC

VARIABLES rc,
          pc, phases, nodeOnPath, npmOnPath, cwd,
          probeBoth, mi, url, calls, results, downloads, node_installed,
          pk, all_success, attempted, anyFailed, lastPkg, lastTried,
          lastFailed, python_success,
          files, ep, launched, skipped, lastExit, app_started

runVars  == <<rc>>
nodeVars == <<nodeOnPath, npmOnPath, cwd, probeBoth, mi, url, calls, results,
              downloads, node_installed>>
depVars  == <<pk, all_success, attempted, anyFailed, lastPkg, lastTried,
              lastFailed, python_success>>
appVars  == <<files, ep, launched, skipped, lastExit, app_started>>
mainVars == <<pc, phases>>
vars     == <<rc, pc, phases, nodeOnPath, npmOnPath, cwd, probeBoth, mi, url,
              calls, results, downloads, node_installed, pk, all_success,
              attempted, anyFailed, lastPkg, lastTried, lastFailed,
              python_success, files, ep, launched, skipped, lastExit,
              app_started>>

(***************************************************************************)
(* run_command (lines 14-39)                                               *)
(***************************************************************************)
\* Largest retry count explored by SpecRun.
MaxRetries == 3

\* retries=1 in the signature of run_command.
DefaultRetries == 1

\* What one subprocess.run call can do: exit 0, exit non-zero, exceed the
\* timeout (TimeoutExpired), or raise any other exception.
Outcomes == {"zero", "nonzero", "timeout", "exception"}

\* The activation record of one run_command call.  trace lists, in order,
\* the outcome of every subprocess.run executed and a "sleep" for every
\* time.sleep(2) taken.
NewCall(retries) ==
    [retries |-> retries, attempt |-> 0, trace |-> <<>>,
     pc |-> "loop", ok |-> FALSE, out |-> "unset"]

\* Lines 26-32: the sleep sits in the else branch of the return-code test,
\* so only a non-zero exit with an attempt remaining backs off.
Backoff(o, attempt, retries) == o = "nonzero" /\ attempt < retries - 1

LoopDoneOffByOne(r) == r.attempt > r.retries

\* Line 16: range(retries) is exhausted.
LoopDone(r) == r.attempt >= r.retries

\* Lines 17-37: one iteration of the loop body with outcome o.
Attempt(r, o) ==
    IF o = "zero"
    THEN [r EXCEPT !.trace = Append(@, o), !.pc = "returned",
                   !.ok = TRUE, !.out = "stdout"]
    ELSE [r EXCEPT !.trace = IF Backoff(o, r.attempt, r.retries)
                             THEN Append(Append(@, o), "sleep")
                             ELSE Append(@, o),
                   !.attempt = @ + 1]

\* Line 39: return False, "".
Exhausted(r) == [r EXCEPT !.pc = "returned", !.ok = FALSE, !.out = ""]

RECURSIVE RunLoop(_, _)
RunLoop(r, outs) ==
    IF r.pc = "returned" THEN r
    ELSE IF LoopDone(r) THEN Exhausted(r)
    ELSE RunLoop(Attempt(r, outs[r.attempt + 1]), outs)

\* A whole call, given the outcome of each attempt.
run_command(outs, retries) == RunLoop(NewCall(retries), outs)

\* The success flag of run_command(cmd) with the default retry count.
Ok(o) == run_command(<<o>>, DefaultRetries).ok

RunAttempt ==
    /\ rc.pc = "loop"
    /\ ~LoopDone(rc)
    /\ \E o \in Outcomes : rc' = Attempt(rc, o)
    /\ UNCHANGED <<mainVars, nodeVars, depVars, appVars>>

RunExhausted ==
    /\ rc.pc = "loop"
    /\ LoopDone(rc)
    /\ rc' = Exhausted(rc)
    /\ UNCHANGED <<mainVars, nodeVars, depVars, appVars>>

(***************************************************************************)
(* __main__ (lines 468-497): the order of the phases                       *)
(***************************************************************************)
PhaseSeq == <<"RuntimeAcquisition", "DependencyInstall", "ProcessLaunch",
              "Summary">>

AfterPhaseGated(phase, ok) ==
    CASE phase = "RuntimeAcquisition" ->
             IF ok THEN "DependencyInstall" ELSE "Summary"
      [] phase = "DependencyInstall" ->
             IF ok THEN "ProcessLaunch" ELSE "Summary"
      [] phase = "ProcessLaunch"      -> "Summary"
      [] OTHER                        -> "Exit"

\* Lines 474-482: the three calls follow one another unconditionally; the
\* returned flags are only printed.
AfterPhase(phase, ok) ==
    CASE phase = "RuntimeAcquisition" -> "DependencyInstall"
      [] phase = "DependencyInstall"  -> "ProcessLaunch"
      [] phase = "ProcessLaunch"      -> "Summary"
      [] OTHER                        -> "Exit"

(***************************************************************************)
(* install_nodejs_restricted and its four strategies (lines 41-345)        *)
(***************************************************************************)
\* Line 43: shutil.which(cmd) is not None, for the two commands probed.
check_command_exists(cmd) ==
    IF cmd = "node" THEN nodeOnPath ELSE npmOnPath

\* The same probe after the strategy's filesystem and PATH changes.
check_command_exists_after(cmd) ==
    IF cmd = "node" THEN nodeOnPath' ELSE npmOnPath'

\* Lines 71-76.
methods == <<"portable", "precompiled", "static", "source">>

\* Lines 178-182: three mirrors.
download_urls == <<"github-raw", "nodejs-latest", "unofficial-builds">>

\* The working directories the script can be in: the one it was started
\* in, the extracted source tree (line 314) and "/" (line 340).
StartDir  == "start"
SourceDir == "node-v20.17.0"
RootDir   == "/"

AlreadyInstalledEither(n, m) == n \/ m

\* Line 64.
AlreadyInstalled(n, m) == n /\ m

ShortCircuitNever(success) == FALSE

\* Line 81: if success: return True.
ShortCircuit(success) == success

\* The strategies only add files and prepend directories to PATH
\* (add_to_path, lines 45-52), so a command that resolves keeps resolving;
\* whether a command resolves afterwards depends on what was downloaded.
EnvGrows ==
    /\ nodeOnPath' \in {b \in BOOLEAN : nodeOnPath => b}
    /\ npmOnPath'  \in {b \in BOOLEAN : npmOnPath => b}

EnvSame == UNCHANGED <<nodeOnPath, npmOnPath>>

\* Lines 78-88: what the loop over methods does with a strategy's result.
ChainStep(success) ==
    /\ results' = Append(results, success)
    /\ IF ShortCircuit(success)
       THEN /\ node_installed' = TRUE
            /\ pc' = AfterPhase("RuntimeAcquisition", TRUE)
            /\ mi' = mi
       ELSE IF mi < Len(methods)
       THEN /\ mi' = mi + 1
            /\ pc' = "methods"
            /\ UNCHANGED node_installed
       ELSE /\ node_installed' = FALSE
            /\ pc' = AfterPhase("RuntimeAcquisition", FALSE)
            /\ mi' = mi

\* Lines 54-76: the probe; both run_command results are discarded.
install_nodejs_restricted ==
    /\ pc = "RuntimeAcquisition"
    /\ phases' = Append(phases, "RuntimeAcquisition")
    /\ probeBoth' = (check_command_exists("node") /\ check_command_exists("npm"))
    /\ IF AlreadyInstalled(check_command_exists("node"),
                           check_command_exists("npm"))
       THEN /\ \E o1 \in Outcomes, o2 \in Outcomes :
                 Ok(o1) \in BOOLEAN /\ Ok(o2) \in BOOLEAN
            /\ node_installed' = TRUE
            /\ pc' = AfterPhase("RuntimeAcquisition", TRUE)
            /\ UNCHANGED mi
       ELSE /\ pc' = "methods"
            /\ mi' = 1
            /\ UNCHANGED node_installed
    /\ UNCHANGED <<rc, nodeOnPath, npmOnPath, cwd, url, calls, results,
                   downloads, depVars, appVars>>

\* Lines 90-159.  The download (line 114) raises or succeeds; after it the
\* extraction, the symlinks or add_to_path may still raise (exc).
install_nodejs_portable_binary ==
    /\ pc = "methods" /\ methods[mi] = "portable"
    /\ calls' = Append(calls, mi)
    /\ downloads' = downloads + 1
    /\ \E dl \in {"ok", "fail"}, exc \in BOOLEAN :
         IF dl = "fail"
         THEN EnvSame /\ ChainStep(FALSE)
         ELSE /\ EnvGrows
              /\ ChainStep(~exc /\ check_command_exists_after("node")
                                /\ check_command_exists_after("npm"))
    /\ UNCHANGED <<rc, phases, cwd, probeBoth, url, depVars, appVars>>

\* Lines 161-184: up to the loop over the mirrors.
install_nodejs_precompiled_binary ==
    /\ pc = "methods" /\ methods[mi] = "precompiled"
    /\ calls' = Append(calls, mi)
    /\ pc' = "download_urls"
    /\ url' = 1
    /\ UNCHANGED <<rc, phases, nodeOnPath, npmOnPath, cwd, probeBoth, mi,
                   results, downloads, node_installed, depVars, appVars>>

\* Lines 215-250, called at line 203: its result is discarded by the
\* caller; npm resolves afterwards only if its download and link succeeded.
install_npm_separately(npmdl) ==
    IF npmdl = "ok"
    THEN npmOnPath' \in {b \in BOOLEAN : npmOnPath => b}
    ELSE npmOnPath' = npmOnPath

\* Lines 186-213: one mirror.  A failed download or an exception moves to
\* the next mirror; once node resolves the strategy returns True whatever
\* install_npm_separately did.
precompiled_download ==
    /\ pc = "download_urls"
    /\ \E dl \in {"ok", "fail"}, exc \in BOOLEAN, npmdl \in {"ok", "fail"},
          o \in Outcomes :
         LET next(dn) ==
               IF url < Len(download_urls)
               THEN /\ url' = url + 1
                    /\ downloads' = downloads + dn
                    /\ UNCHANGED <<pc, mi, results, node_installed>>
               ELSE /\ url' = url
                    /\ downloads' = downloads + dn
                    /\ ChainStep(FALSE)
         IN IF dl = "fail"
            THEN EnvSame /\ next(1)
            ELSE /\ nodeOnPath' \in {b \in BOOLEAN : nodeOnPath => b}
                 /\ IF ~exc /\ check_command_exists_after("node")
                    THEN /\ Ok(o) \in BOOLEAN
                         /\ install_npm_separately(npmdl)
                         /\ downloads' = downloads + 2
                         /\ url' = url
                         /\ ChainStep(TRUE)
                    ELSE /\ npmOnPath' = npmOnPath
                         /\ next(1)
    /\ UNCHANGED <<rc, phases, cwd, probeBoth, calls, depVars, appVars>>

\* Lines 252-290: only "node" is verified (line 281).
install_nodejs_static_binary ==
    /\ pc = "methods" /\ methods[mi] = "static"
    /\ calls' = Append(calls, mi)
    /\ downloads' = downloads + 1
    /\ \E dl \in {"ok", "fail"}, exc \in BOOLEAN :
         IF dl = "fail"
         THEN EnvSame /\ ChainStep(FALSE)
         ELSE /\ EnvGrows
              /\ ChainStep(~exc /\ check_command_exists_after("node"))
    /\ UNCHANGED <<rc, phases, cwd, probeBoth, url, depVars, appVars>>

\* Lines 292-345.  chdirOk: os.chdir(source_dir) at line 314 succeeded;
\* exc: an exception was raised after it and caught at line 342.  The
\* os.chdir("/") of line 340 is reached only when no return and no
\* exception came first.
install_nodejs_from_source_simple ==
    /\ pc = "methods" /\ methods[mi] = "source"
    /\ calls' = Append(calls, mi)
    /\ downloads' = downloads + 1
    /\ \E dl \in {"ok", "fail"}, chdirOk \in BOOLEAN, exc \in BOOLEAN,
          oc \in Outcomes, om \in Outcomes, oi \in Outcomes :
         IF dl = "fail" \/ ~chdirOk
         THEN EnvSame /\ cwd' = cwd /\ ChainStep(FALSE)
         ELSE IF exc
         THEN EnvSame /\ cwd' = SourceDir /\ ChainStep(FALSE)
         ELSE IF Ok(oc) /\ Ok(om) /\ Ok(oi)
         THEN /\ EnvGrows
              /\ IF check_command_exists_after("node")
                 THEN cwd' = SourceDir /\ ChainStep(TRUE)
                 ELSE cwd' = RootDir /\ ChainStep(FALSE)
         ELSE EnvSame /\ cwd' = RootDir /\ ChainStep(FALSE)
    /\ UNCHANGED <<rc, phases, probeBoth, url, depVars, appVars>>

(***************************************************************************)
(* install_python_dependencies_safe (lines 347-417)                        *)
(***************************************************************************)
\* Lines 357-367.
packages ==
    <<"flask", "aiofiles", "aiohttp", "asyncio", "beautifulsoup4",
      "dnspython", "future==0.18.3", "gitpython", "httpx[http2]",
      "heroku3", "hachoir", "motor==3.3.2", "psutil", "pykeyboard",
      "pymongo==4.6.3", "python-dotenv", "pyyaml==6.0.1", "requests",
      "qrcode", "tgcrypto", "gpytranslate", "googlesearch-python",
      "telegraph", "speedtest-cli", "unidecode", "urllib3", "wget",
      "yt-dlp", "bing-image-urls", "Cloudscraper",
      "pillow>=9.0.0", "py-tgcalls>=0.9.0", "SafoneAPI>=1.0.60",
      "youtube-search-python>=1.6.0", "spotipy>=2.0.0">>

\* Lines 370-374.
git_repos ==
    <<"git+https://github.com/KurimuzonAkuma/pyrogram@dev",
      "git+https://github.com/alexmercerind/youtube-search-python@main",
      "git+https://github.com/joetats/youtube_search@master">>

\* Lines 397-404: (package_cmd, package_name).
problem_packages ==
    <<<<"lxml", "lxml">>,
      <<"search_engine_parser", "search_engine_parser">>,
      <<"bing_image_downloader", "bing_image_downloader">>,
      <<"MukeshAPI", "MukeshAPI">>,
      <<"telethon==1.33.1", "telethon">>,
      <<"ffmpeg-python", "ffmpeg-python">>>>

\* The three pip invocations that occur: lines 381/407, 383/391/409, 411.
PreferBinary  == "--no-cache-dir --prefer-binary"
Plain         == "--no-cache-dir"
WithoutCython == "--no-cache-dir --install-option=--without-cython"

\* Lines 381-386: the body of the loop over packages.  outs are the
\* outcomes of the pip invocations, tried the invocations made.
install_regular(outs) ==
    IF Ok(outs[1])
    THEN [success |-> TRUE,        tried |-> <<PreferBinary>>]
    ELSE [success |-> Ok(outs[2]), tried |-> <<PreferBinary, Plain>>]

install_git_unchecked(outs) == [success |-> TRUE, tried |-> <<Plain>>]

\* Lines 391-394: one attempt per repository.
install_git(outs) == [success |-> Ok(outs[1]), tried |-> <<Plain>>]

ThirdAttemptAlways(package_cmd) == TRUE

\* Line 410: and package_cmd == "lxml".
ThirdAttempt(package_cmd) == package_cmd = "lxml"

\* Lines 407-415: the body of the loop over problem_packages.
install_problem(package_cmd, outs) ==
    IF Ok(outs[1])
    THEN [success |-> TRUE, tried |-> <<PreferBinary>>]
    ELSE IF Ok(outs[2]) \/ ~ThirdAttempt(package_cmd)
    THEN [success |-> Ok(outs[2]), tried |-> <<PreferBinary, Plain>>]
    ELSE [success |-> Ok(outs[3]),
          tried |-> <<PreferBinary, Plain, WithoutCython>>]

OutcomeSeqs == [1..3 -> Outcomes]

\* Bookkeeping shared by the three loops: the package is appended to the
\* list of packages an install was attempted for, and it counts as failed
\* when every invocation made for it failed.  The flag all_success is
\* cleared by the code's own test of success (lines 384, 392, 413).
Record(name, r, outs) ==
    /\ attempted' = Append(attempted, name)
    /\ lastPkg' = name
    /\ lastTried' = r.tried
    /\ lastFailed' = (\A k \in 1..Len(r.tried) : outs[k] # "zero")
    /\ anyFailed' = (anyFailed \/ lastFailed')
    /\ all_success' = IF ~r.success THEN FALSE ELSE all_success

\* Lines 347-376: pip/setuptools upgrade (result discarded), all_success.
install_python_dependencies_safe ==
    /\ pc = "DependencyInstall"
    /\ phases' = Append(phases, "DependencyInstall")
    /\ \E o \in Outcomes : Ok(o) \in BOOLEAN
    /\ all_success' = TRUE
    /\ pk' = 1
    /\ pc' = "packages"
    /\ UNCHANGED <<rc, nodeVars, attempted, anyFailed, lastPkg, lastTried,
                   lastFailed, python_success, appVars>>

\* Lines 379-386: one iteration.
install_package ==
    /\ pc = "packages"
    /\ \E outs \in OutcomeSeqs :
         Record(packages[pk], install_regular(outs), outs)
    /\ IF pk < Len(packages)
       THEN pk' = pk + 1 /\ pc' = pc
       ELSE pk' = 1 /\ pc' = "git_repos"
    /\ UNCHANGED <<rc, phases, nodeVars, python_success, appVars>>

\* Lines 389-394: one iteration.
install_git_repo ==
    /\ pc = "git_repos"
    /\ \E outs \in OutcomeSeqs :
         Record(git_repos[pk], install_git(outs), outs)
    /\ IF pk < Len(git_repos)
       THEN pk' = pk + 1 /\ pc' = pc
       ELSE pk' = 1 /\ pc' = "problem_packages"
    /\ UNCHANGED <<rc, phases, nodeVars, python_success, appVars>>

\* Lines 406-417: one iteration; after the last one, return all_success.
install_problem_package ==
    /\ pc = "problem_packages"
    /\ \E outs \in OutcomeSeqs :
         Record(problem_packages[pk][2],
                install_problem(problem_packages[pk][1], outs), outs)
    /\ IF pk < Len(problem_packages)
       THEN pk' = pk + 1 /\ pc' = pc /\ UNCHANGED python_success
       ELSE /\ pk' = pk
            /\ python_success' = all_success'
            /\ pc' = AfterPhase("DependencyInstall", all_success')
    /\ UNCHANGED <<rc, phases, nodeVars, appVars>>

(***************************************************************************)
(* start_application (lines 419-466)                                       *)
(***************************************************************************)
\* A token of an argument vector, split into its first character and the
\* rest so that str.startswith can be evaluated.
Tok(first, rest) == [first |-> first, rest |-> rest]

sys_executable == Tok("p", "ython")

\* Lines 426-434.
entry_points ==
    <<<<sys_executable, Tok("-", "m"), Tok("S", "ONALI")>>,
      <<sys_executable, Tok("m", "ain.py")>>,
      <<sys_executable, Tok("a", "pp.py")>>,
      <<sys_executable, Tok("b", "ot.py")>>,
      <<sys_executable, Tok("s", "erver.py")>>,
      <<sys_executable, Tok("i", "ndex.py")>>,
      <<sys_executable, Tok("s", "tart.py")>>>>

\* str.startswith with a one-character prefix.
startswith(tok, ch) == tok.first = ch

NeedsFileAlways(entry_point) == Len(entry_point) > 1

\* Line 438: the candidate names a file.
NeedsFile(entry_point) ==
    Len(entry_point) > 1 /\ ~startswith(entry_point[2], "-")

\* The paths the launcher can probe.
EntryFiles == {entry_points[i][2] : i \in {j \in 1..Len(entry_points) :
                                              NeedsFile(entry_points[j])}}

path_exists_always(tok) == TRUE

\* Line 439: os.path.exists, relative to the working directory.
path_exists(tok) == tok \in files

\* What a launch can do (lines 445-464): exit 0, exit non-zero, or raise
\* in Popen or while streaming.
LaunchOutcomes == {"zero", "nonzero", "exception"}

ReturnOnZeroNever(o) == FALSE

\* Line 460.
ReturnOnZero(o) == o = "zero"

\* Lines 419-434.  files is the set of candidate files present in the
\* working directory the launcher runs in.
start_application ==
    /\ pc = "ProcessLaunch"
    /\ phases' = Append(phases, "ProcessLaunch")
    /\ files' \in SUBSET EntryFiles
    /\ ep' = 1
    /\ pc' = "entry_points"
    /\ UNCHANGED <<rc, nodeVars, depVars, launched, skipped, lastExit,
                   app_started>>

\* Lines 436-466: one iteration; after the last one, return False.
try_entry_point ==
    /\ pc = "entry_points"
    /\ LET entry_point == entry_points[ep]
           next == IF ep < Len(entry_points)
                   THEN ep' = ep + 1 /\ UNCHANGED <<pc, app_started>>
                   ELSE /\ ep' = ep
                        /\ app_started' = FALSE
                        /\ pc' = AfterPhase("ProcessLaunch", FALSE)
       IN IF NeedsFile(entry_point) /\ ~path_exists(entry_point[2])
          THEN /\ skipped' = Append(skipped, ep)
               /\ next
               /\ UNCHANGED <<launched, lastExit>>
          ELSE /\ launched' = Append(launched, ep)
               /\ UNCHANGED skipped
               /\ \E o \in LaunchOutcomes :
                    /\ lastExit' = o
                    /\ IF ReturnOnZero(o)
                       THEN /\ app_started' = TRUE
                            /\ pc' = AfterPhase("ProcessLaunch", TRUE)
                            /\ ep' = ep
                       ELSE next
    /\ UNCHANGED <<rc, phases, nodeVars, depVars, files>>

\* Lines 482-497: the summary; run_command("ls -la") when nothing started.
summary ==
    /\ pc = "Summary"
    /\ phases' = Append(phases, "Summary")
    /\ IF ~app_started
       THEN \E o \in Outcomes : Ok(o) \in BOOLEAN
       ELSE TRUE
    /\ pc' = AfterPhase("Summary", TRUE)
    /\ UNCHANGED <<rc, nodeVars, depVars, appVars>>

(***************************************************************************)
(* Specifications                                                          *)
(***************************************************************************)
InitMain ==
    /\ pc = "RuntimeAcquisition"
    /\ phases = <<>>
    /\ cwd = StartDir
    /\ probeBoth = FALSE
    /\ mi = 0 /\ url = 0
    /\ calls = <<>> /\ results = <<>>
    /\ downloads = 0
    /\ node_installed = FALSE
    /\ pk = 0
    /\ all_success = FALSE
    /\ attempted = <<>>
    /\ anyFailed = FALSE
    /\ lastPkg = "none" /\ lastTried = <<>> /\ lastFailed = FALSE
    /\ python_success = FALSE
    /\ files = {}
    /\ ep = 0
    /\ launched = <<>> /\ skipped = <<>>
    /\ lastExit = "none"
    /\ app_started = FALSE

\* The script as started: node and npm may or may not resolve already.
Init ==
    /\ InitMain
    /\ nodeOnPath \in BOOLEAN
    /\ npmOnPath \in BOOLEAN
    /\ rc = NewCall(DefaultRetries)

Next ==
    \/ install_nodejs_restricted
    \/ install_nodejs_portable_binary
    \/ install_nodejs_precompiled_binary
    \/ precompiled_download
    \/ install_nodejs_static_binary
    \/ install_nodejs_from_source_simple
    \/ install_python_dependencies_safe
    \/ install_package
    \/ install_git_repo
    \/ install_problem_package
    \/ start_application
    \/ try_entry_point
    \/ summary

Spec == Init /\ [][Next]_vars

\* Every step of the script terminates (commands and children are assumed
\* to end), so the single thread always takes its next step.
LiveSpec == Spec /\ WF_vars(Next)

\* run_command on its own, for every retry count up to MaxRetries.
InitRun ==
    /\ InitMain
    /\ nodeOnPath = FALSE /\ npmOnPath = FALSE
    /\ rc \in {NewCall(R) : R \in 0..MaxRetries}

NextRun == RunAttempt \/ RunExhausted

SpecRun == InitRun /\ [][NextRun]_vars

(***************************************************************************)
(* Properties                                                              *)
(***************************************************************************)
IsPrefix(s, t) == Len(s) <= Len(t) /\ \A i \in 1..Len(s) : s[i] = t[i]

Range(s) == {s[i] : i \in 1..Len(s)}

\* Number of subprocess.run executions recorded in a trace.
Execs(trace) == Cardinality({i \in 1..Len(trace) : trace[i] # "sleep"})

\* Zero-based index of the attempt that position i of a trace belongs to
\* (for a "sleep", the attempt it precedes).
AttemptIdx(trace, i) ==
    Cardinality({j \in 1..(i - 1) : trace[j] # "sleep"})

NodeDone == pc \notin {"RuntimeAcquisition", "methods", "download_urls"}

DepsDone == pc \in {"ProcessLaunch", "entry_points", "Summary", "Exit"}

LaunchDone == pc \in {"Summary", "Exit"}

ProblemNames == {problem_packages[i][2] : i \in 1..Len(problem_packages)}

AllPackageNames ==
    packages \o git_repos \o
    [i \in 1..Len(problem_packages) |-> problem_packages[i][2]]

AppPy == Tok("a", "pp.py")

\* C1: run_command with retries=R never executes the command more than R
\* times; when every attempt fails (non-zero exit, timeout or exception) it
\* has executed it exactly R times when it returns, and returns (False, "");
\* an attempt that exits zero is the last one executed and ends the call
\* with success.
C1_RetriesExact ==
    /\ Execs(rc.trace) <= rc.retries
    /\ (rc.pc = "returned" /\ "zero" \notin Range(rc.trace))
          => /\ Execs(rc.trace) = rc.retries
             /\ rc.ok = FALSE
             /\ rc.out = ""
    /\ \A i \in 1..Len(rc.trace) :
          rc.trace[i] = "zero"
             => i = Len(rc.trace) /\ rc.pc = "returned" /\ rc.ok = TRUE

C1_Witness ==
    /\ rc.pc = "returned"
    /\ rc.retries = MaxRetries
    /\ rc.ok = FALSE
    /\ Execs(rc.trace) = MaxRetries
    /\ {"nonzero", "timeout", "exception"} \subseteq Range(rc.trace)

\* C7 as stated: every attempt that fails by non-zero exit or by timeout
\* with an attempt remaining is followed by the backoff sleep, and no sleep
\* follows the final attempt.
C7_BackoffOnExitOrTimeout ==
    \A i \in 1..Len(rc.trace) :
       /\ (rc.trace[i] \in {"nonzero", "timeout"}
             /\ AttemptIdx(rc.trace, i) < rc.retries - 1)
            => (i < Len(rc.trace) /\ rc.trace[i + 1] = "sleep")
       /\ rc.trace[i] = "sleep" => AttemptIdx(rc.trace, i) < rc.retries

\* C2: the strategies are invoked in the fixed order 1..4, strategy k only
\* when the probe did not find both node and npm and strategies 1..k-1 were
\* invoked and failed; with both commands present no strategy and no
\* download happens and the result is success; a success of strategy 1
\* leaves 2-4 uninvoked; failure is returned only after all four failed.
C2_ChainShortCircuits ==
    /\ IsPrefix(calls, <<1, 2, 3, 4>>)
    /\ Len(calls) > 0 => ~probeBoth
    /\ Len(results) <= Len(calls)
    /\ \A i \in 1..Len(results) : results[i] => i = Len(calls)
    /\ Len(calls) > 1 => Len(results) >= Len(calls) - 1
    /\ (NodeDone /\ probeBoth)
          => calls = <<>> /\ downloads = 0 /\ node_installed
    /\ (NodeDone /\ ~node_installed)
          => calls = <<1, 2, 3, 4>> /\ results = <<FALSE, FALSE, FALSE, FALSE>>

C2_Witness ==
    /\ NodeDone
    /\ node_installed
    /\ calls = <<1, 2, 3, 4>>
    /\ results = <<FALSE, FALSE, FALSE, TRUE>>

\* C3: installs are attempted for the regular packages, the git
\* repositories and the problem packages in list order whatever failed
\* before, and the returned flag is True iff no package failed all of its
\* install attempts.
C3_AllAttemptedFlagExact ==
    /\ IsPrefix(attempted, AllPackageNames)
    /\ pc \in {"packages", "git_repos", "problem_packages"}
          => all_success = ~anyFailed
    /\ DepsDone => /\ attempted = AllPackageNames
                   /\ python_success = ~anyFailed

C3_Witness ==
    /\ DepsDone
    /\ anyFailed
    /\ ~python_success
    /\ attempted = AllPackageNames
    /\ ~lastFailed

\* C8 as stated: every problem package whose first two attempts fail gets
\* a third attempt with different flags before it is recorded as failed.
C8_ThirdAttemptForAll ==
    (lastPkg \in ProblemNames /\ lastFailed)
       => /\ Len(lastTried) = 3
          /\ lastTried[3] \notin {lastTried[1], lastTried[2]}

\* C8 amended: of the problem packages only lxml gets a third attempt
\* (with the without-cython install option) after its first two attempts
\* fail; every other problem package is recorded as failed after the
\* binary-preferring and the plain attempt.
C8_ThirdAttemptForLxmlOnly ==
    (lastPkg \in ProblemNames /\ lastFailed)
       => /\ lastTried = IF lastPkg = "lxml"
                         THEN <<PreferBinary, Plain, WithoutCython>>
                         ELSE <<PreferBinary, Plain>>
          /\ ~all_success

C8_Witness ==
    /\ lastPkg = "lxml"
    /\ lastFailed
    /\ lastTried = <<PreferBinary, Plain, WithoutCython>>
    /\ ~all_success

\* C4: a candidate whose second token does not start with "-" and whose
\* file is absent is skipped, never launched, and the launcher goes on to
\* the next candidate; a launched candidate has a "-" second token or an
\* existing file.
C4_MissingFileSkipped ==
    /\ \A k \in Range(launched) :
          \/ entry_points[k][2].first = "-"
          \/ entry_points[k][2] \in files
    /\ \A k \in Range(skipped) :
          /\ k \notin Range(launched)
          /\ entry_points[k][2] \notin files
    /\ pc = "entry_points"
          => Range(launched) \cup Range(skipped) = 1..(ep - 1)
    /\ (LaunchDone /\ ~app_started)
          => Range(launched) \cup Range(skipped) = 1..Len(entry_points)

C4_Witness ==
    /\ LaunchDone
    /\ skipped = <<2, 3>>
    /\ launched = <<1, 4>>
    /\ app_started

\* C5 as stated: with only the third candidate's file present and its
\* process exiting 0, success is returned after exactly one invocation.
C5_OneInvocation ==
    (LaunchDone /\ files = {AppPy} /\ 3 \in Range(launched)
        /\ lastExit = "zero")
       => app_started /\ launched = <<3>>

\* C5 amended: with only the third candidate's file present and its
\* process exiting 0, success is returned after exactly two invocations:
\* the first candidate (python -m SONALI, launched without a file test and
\* not exiting 0) and then the third; no other candidate is launched.
C5_ModuleThenThird ==
    (LaunchDone /\ files = {AppPy} /\ 3 \in Range(launched)
        /\ lastExit = "zero")
       => app_started /\ launched = <<1, 3>> /\ skipped = <<2>>

C5_Witness ==
    /\ LaunchDone
    /\ files = {AppPy}
    /\ launched = <<1, 3>>
    /\ lastExit = "zero"
    /\ app_started

\* C6: the phases are entered in the order RuntimeAcquisition,
\* DependencyInstall, ProcessLaunch, Summary, once each and never going
\* back, whatever the earlier phases returned, and the run always reaches
\* the end of the Summary phase.
C6_PhasesSequential ==
    /\ [](IsPrefix(phases, PhaseSeq))
    /\ [](pc \in {"Summary", "Exit"} => Len(phases) >= 3)
    /\ <>(pc = "Exit" /\ phases = PhaseSeq)

C6_Witness ==
    /\ pc = "Exit"
    /\ phases = PhaseSeq
    /\ ~node_installed /\ ~python_success /\ ~app_started

\* C9: when install_nodejs_restricted has returned success, both node and
\* npm resolve on PATH.
C9_SuccessMeansNodeAndNpm ==
    (NodeDone /\ node_installed) => (nodeOnPath /\ npmOnPath)

\* C10: the launcher tests the relative entry-point files in the directory
\* the run started in.
C10_LaunchInStartDir ==
    pc \in {"ProcessLaunch", "entry_points"} => cwd = StartDir

====
